---- MODULE Spec2Model ----
(***************************************************************************)
(* State-machine model of cc_swedish (src/src/main.rs).                    *)
(*                                                                         *)
(*  - Spec      : read_warc_headers, the record scanner with the           *)
(*                extraction subprocess and the language filter.           *)
(*  - FetchSpec : the fetch loop of main (lines 400-411) together with     *)
(*                fetch_and_write.                                         *)
(*                                                                         *)
(* Bytes are one-character strings, byte strings are sequences of them.    *)
(* Positions count consumed bytes (pos = 0 is the start of the stream).    *)
(* Probabilities are fixed-point integers in units of 10^-7.               *)
(***************************************************************************)
EXTENDS Integers, Sequences, FiniteSets, TLC

\* ------------------------------------------------------------------ bounds
MaxRecords == 2
MaxCut == 1
MaxIndex == 2

\* --------------------------------------------------------------- constants
TerminatorLen == 4
ProbScale == 10000000
ProbThreshold == 8000000
MinTextLen == 100
BackoffMillis == 1000

VARIABLES
    \* ---- read_warc_headers
    stream,          \* bytes of the archive file being scanned
    recs,            \* the records the stream was assembled from
    cut,             \* number of bytes missing at the end of the stream
    pos,             \* bytes consumed from the reader so far
    pc,              \* position of the scanner in its code
    headers,         \* header lines collected for the current record
    content_length,  \* value computed from the headers
    content,         \* buffer filled by read_exact
    tmp_exists,      \* does the file at tmp_path exist
    tmp,             \* contents of the file at tmp_path
    output,          \* result of the extraction subprocess
    out_file,        \* lines appended to <file>.json
    line_rec,        \* for each line of out_file, the record it comes from
    result,          \* "running", "ok" (returned Ok) or "err" (returned Err)
    attempts,        \* positions at which the subprocess was started
    scanned,         \* number of non-empty header blocks completed
    \* ---- fetch loop
    overflow_checks, \* is the build one that panics on integer overflow
    text,            \* lines of the index response
    domain,          \* result of extract_domain for the current record
    records,         \* parsed index records
    se_map,          \* keys of the allow-list mapping
    idx,             \* index of the record the loop is at
    fpc,             \* position of the fetch loop in its code
    status,          \* status of the last response received (0: none)
    resp,            \* body of the response being processed
    archive,         \* bytes flushed to the output archive file
    net,             \* requests issued and delays elapsed, in order
    log              \* lines printed to stdout/stderr, in order

scanVars == <<stream, recs, cut, pos, pc, headers, content_length, content,
              tmp_exists, tmp, output, out_file, line_rec, result, attempts, scanned>>
fetchVars == <<overflow_checks, text, domain, records, se_map, idx, fpc,
              status, resp, archive, net>>
vars == <<scanVars, fetchVars, log>>

\* ============================================================ byte strings
CR == "\r"
LF == "\n"
CRLF == <<CR, LF>>
Whitespace == {" ", "\t", CR, LF}
Terminator == <<CR, LF, CR, LF>>
ContentLengthPrefix ==
    <<"C","o","n","t","e","n","t","-","L","e","n","g","t","h",":"," ">>
VersionLine == <<"W","A","R","C","/","1",".","0">>
TypeLine == <<"W","A","R","C","-","T","y","p","e",":"," ","r">>

Digit(c) ==
    CASE c = "0" -> 0 [] c = "1" -> 1 [] c = "2" -> 2 [] c = "3" -> 3
      [] c = "4" -> 4 [] c = "5" -> 5 [] c = "6" -> 6 [] c = "7" -> 7
      [] c = "8" -> 8 [] c = "9" -> 9 [] OTHER -> -1

DigitChar(d) ==
    CASE d = 0 -> "0" [] d = 1 -> "1" [] d = 2 -> "2" [] d = 3 -> "3"
      [] d = 4 -> "4" [] d = 5 -> "5" [] d = 6 -> "6" [] d = 7 -> "7"
      [] d = 8 -> "8" [] OTHER -> "9"

RECURSIVE Decimal(_)
\* what format!("{}", n) prints for an unsigned n
Decimal(n) == IF n < 10 THEN <<DigitChar(n)>>
              ELSE Decimal(n \div 10) \o <<DigitChar(n % 10)>>

RECURSIVE DigitsValue(_, _)
\* value of a run of ASCII digits, -1 when some byte is not a digit
DigitsValue(s, acc) ==
    IF s = <<>> THEN acc
    ELSE IF Digit(Head(s)) < 0 THEN -1
    ELSE DigitsValue(Tail(s), acc * 10 + Digit(Head(s)))

\* str::parse::<usize>: optional '+', then at least one digit; -1 is Err
ParseUsize(s) ==
    LET d == IF s # <<>> /\ Head(s) = "+" THEN Tail(s) ELSE s
    IN  IF d = <<>> THEN -1 ELSE DigitsValue(d, 0)

RECURSIVE TrimEnd(_)
TrimEnd(s) ==
    IF s # <<>> /\ s[Len(s)] \in Whitespace
    THEN TrimEnd(SubSeq(s, 1, Len(s) - 1)) ELSE s

RECURSIVE TrimStart(_)
TrimStart(s) ==
    IF s # <<>> /\ Head(s) \in Whitespace THEN TrimStart(Tail(s)) ELSE s

Trim(s) == TrimStart(TrimEnd(s))

HasPrefix(s, p) == Len(s) >= Len(p) /\ SubSeq(s, 1, Len(p)) = p
StripPrefix(s, p) == SubSeq(s, Len(p) + 1, Len(s))

\* =========================================================== the archive
\* A record of the archive file: its header block, the blank line, the body
\* and the 4-byte terminator.
Bodies == { <<"a">>, <<"<", LF, ">">> }
RecordKinds == {"body", "zero", "nolen"}
RecordSet == [kind : RecordKinds, body : Bodies]

DeclaredLength(r) == IF r.kind = "body" THEN Len(r.body) ELSE 0
BodyOf(r) == IF r.kind = "body" THEN r.body ELSE <<>>

HeaderBytes(r) ==
    VersionLine \o CRLF
    \o TypeLine \o CRLF
    \o (IF r.kind = "nolen" THEN <<>>
        ELSE ContentLengthPrefix \o Decimal(DeclaredLength(r)) \o CRLF)
    \o CRLF

RecordBytes(r) == HeaderBytes(r) \o BodyOf(r) \o Terminator

RECURSIVE Concat(_)
Concat(rs) == IF rs = <<>> THEN <<>>
              ELSE RecordBytes(Head(rs)) \o Concat(Tail(rs))

\* offset of the first byte after record i (0 for i = 0)
Boundary(rs, i) == Len(Concat(SubSeq(rs, 1, i)))

Streams == UNION { [1..n -> RecordSet] : n \in 0..MaxRecords }

\* ============================================================ the reader
\* BufRead::read_line: the bytes up to and including the next LF, or the
\* rest of the stream when there is none.
LineEnd(s, p) ==
    IF \E i \in (p + 1)..Len(s) : s[i] = LF
    THEN CHOOSE i \in (p + 1)..Len(s) :
            s[i] = LF /\ \A j \in (p + 1)..(i - 1) : s[j] # LF
    ELSE Len(s)

ReadLine(s, p) == SubSeq(s, p + 1, LineEnd(s, p))

RECURSIVE ContentLength(_, _)
\* the loop over the collected headers; the last matching header wins and
\* an unparsable value counts as 0
ContentLength(hs, acc) ==
    IF hs = <<>> THEN acc
    ELSE LET h == Head(hs)
             v == IF HasPrefix(h, ContentLengthPrefix)
                  THEN ParseUsize(StripPrefix(h, ContentLengthPrefix))
                  ELSE -2
         IN  ContentLength(Tail(hs),
                 IF v = -2 THEN acc ELSE IF v = -1 THEN 0 ELSE v)

\* ================================================ the extraction output
\* A JSON field is absent, a JSON string or a JSON number.  The text of a
\* document is given by its number of one-byte and of two-byte characters.
Absent == [t |-> "absent", s |-> <<>>, n |-> 0]
JStr(s) == [t |-> "str", s |-> s, n |-> 0]
JNum(n) == [t |-> "num", s |-> <<>>, n |-> n]

Text(a, w) == [present |-> TRUE, ascii |-> a, wide |-> w]
NoText == [present |-> FALSE, ascii |-> 0, wide |-> 0]

\* str::len of the text: its length in bytes of UTF-8
ByteLen(t) == t.ascii + 2 * t.wide
\* number of characters of the text
CharLen(t) == t.ascii + t.wide

RECURSIVE Pow10(_)
Pow10(k) == IF k = 0 THEN 1 ELSE 10 * Pow10(k - 1)

\* str::parse::<f64> on decimal notation "i.f" (at most 7 fraction digits),
\* in units of 10^-7; -1 is Err
ParseF64(s) ==
    LET dots == { i \in 1..Len(s) : s[i] = "." }
    IN  IF s = <<>> THEN -1
        ELSE IF dots = {} THEN
            (IF DigitsValue(s, 0) < 0 THEN -1
             ELSE DigitsValue(s, 0) * ProbScale)
        ELSE LET d == CHOOSE i \in dots : \A j \in dots : i <= j
                 ip == SubSeq(s, 1, d - 1)
                 fp == SubSeq(s, d + 1, Len(s))
             IN  IF Len(s) = 1 \/ Len(fp) > 7 THEN -1
                 ELSE IF DigitsValue(ip, 0) < 0 \/ DigitsValue(fp, 0) < 0
                 THEN -1
                 ELSE DigitsValue(ip, 0) * ProbScale
                      + DigitsValue(fp, 0) * Pow10(7 - Len(fp))

\* Value::as_str on the field, then the default
LangOf(doc) == IF doc.lang.t = "str" THEN doc.lang.s ELSE <<>>

LangProbOf(doc) ==
    IF doc.lang_prob.t = "str"
    THEN (IF ParseF64(doc.lang_prob.s) < 0 THEN 0
          ELSE ParseF64(doc.lang_prob.s))
    ELSE 0

TextLenOf(doc) == IF doc.text.present THEN ByteLen(doc.text) ELSE 0

Sv == <<"s", "v">>
En == <<"e", "n">>

\* the filter of read_warc_headers
Keep(doc) ==
    /\ LangOf(doc) = Sv
    /\ LangProbOf(doc) > ProbThreshold
    /\ TextLenOf(doc) > MinTextLen

P09 == <<"0", ".", "9">>
P08 == <<"0", ".", "8">>
P08plus == <<"0", ".", "8", "0", "0", "0", "0", "0", "1">>

Docs ==
    [lang : {JStr(Sv), JStr(En)},
     lang_prob : {JStr(P09), JNum(9000000), JNum(8000001), JStr(P08),
                  JStr(P08plus)},
     text : {Text(101, 0), Text(100, 0), Text(0, 51)}]
    \cup { [lang |-> Absent, lang_prob |-> Absent, text |-> NoText] }

NoDoc == [lang |-> Absent, lang_prob |-> Absent, text |-> NoText]

\* what Command::output() gives back: exit status, and stdout as JSON
Outputs ==
    { [success |-> FALSE, json |-> FALSE, doc |-> NoDoc],
      [success |-> TRUE, json |-> FALSE, doc |-> NoDoc] }
    \cup { [success |-> TRUE, json |-> TRUE, doc |-> d] : d \in Docs }

NoOutput == [success |-> FALSE, json |-> FALSE, doc |-> NoDoc]

None == [some |-> FALSE, val |-> <<>>]
Some(v) == [some |-> TRUE, val |-> v]

\* a line printed by println!/eprintln!
Line(msg, i, e) == [msg |-> msg, rec |-> i, err |-> e]

\* ===================================================== read_warc_headers
IdleFetch ==
    /\ overflow_checks = FALSE
    /\ text = <<>>
    /\ domain = None
    /\ records = <<>>
    /\ se_map = {}
    /\ idx = 1
    /\ fpc = "idle"
    /\ status = 0
    /\ resp = [plain |-> <<>>, bad |-> -1]
    /\ archive = <<>>
    /\ net = <<>>

Init ==
    /\ recs \in Streams
    /\ cut \in 0..MaxCut
    /\ cut <= Len(Concat(recs))
    /\ stream = SubSeq(Concat(recs), 1, Len(Concat(recs)) - cut)
    /\ pos = 0
    /\ pc = "headers"
    /\ headers = <<>>
    /\ content_length = 0
    /\ content = <<>>
    /\ tmp_exists = FALSE
    /\ tmp = <<>>
    /\ output = NoOutput
    /\ out_file = <<>>
    /\ line_rec = <<>>
    /\ result = "running"
    /\ attempts = <<>>
    /\ scanned = 0
    /\ log = <<>>
    /\ IdleFetch

\* remove_file(&tmp_path) followed by return Ok(())
RemoveAndReturn ==
    /\ tmp_exists' = FALSE
    /\ tmp' = <<>>
    /\ pc' = "done"
    /\ result' = "ok"

\* a `?` that returns the error to the caller
ReturnErr ==
    /\ pc' = "done"
    /\ result' = "err"

\* one iteration of the header loop: read_line hits end-of-stream
HeaderEof ==
    /\ pc = "headers"
    /\ LineEnd(stream, pos) - pos = 0
    /\ RemoveAndReturn
    /\ UNCHANGED <<stream, recs, cut, pos, headers, content_length, content,
                   output, out_file, line_rec, attempts, scanned, log>>
    /\ UNCHANGED fetchVars

\* one iteration of the header loop: a non-blank line is pushed
HeaderLine ==
    /\ pc = "headers"
    /\ LineEnd(stream, pos) - pos > 0
    /\ Trim(ReadLine(stream, pos)) # <<>>
    /\ headers' = Append(headers, TrimEnd(ReadLine(stream, pos)))
    /\ pos' = LineEnd(stream, pos)
    /\ UNCHANGED <<stream, recs, cut, pc, content_length, content,
                   tmp_exists, tmp, output, out_file, line_rec, result, attempts,
                   scanned, log>>
    /\ UNCHANGED fetchVars

\* a blank line with no header collected: break, remove_file, return Ok
HeaderEmptyBreak ==
    /\ pc = "headers"
    /\ LineEnd(stream, pos) - pos > 0
    /\ Trim(ReadLine(stream, pos)) = <<>>
    /\ headers = <<>>
    /\ pos' = LineEnd(stream, pos)
    /\ RemoveAndReturn
    /\ UNCHANGED <<stream, recs, cut, headers, content_length, content,
                   output, out_file, line_rec, attempts, scanned, log>>
    /\ UNCHANGED fetchVars

HasBodyAlways(n) == TRUE

\* if content_length > 0
HasBody(n) == n > 0

\* a blank line ends a non-empty header block; Content-Length is extracted
HeaderBlockEnd ==
    /\ pc = "headers"
    /\ LineEnd(stream, pos) - pos > 0
    /\ Trim(ReadLine(stream, pos)) = <<>>
    /\ headers # <<>>
    /\ pos' = LineEnd(stream, pos)
    /\ content_length' = ContentLength(headers, 0)
    /\ scanned' = scanned + 1
    /\ IF HasBody(ContentLength(headers, 0))
       THEN pc' = "body" /\ headers' = headers
       ELSE pc' = "headers" /\ headers' = <<>>
    /\ UNCHANGED <<stream, recs, cut, content, tmp_exists, tmp, output,
                   out_file, line_rec, result, attempts, log>>
    /\ UNCHANGED fetchVars

EofAsCompletion ==
    /\ pc' = "done"
    /\ result' = "ok"

\* read_exact fails with UnexpectedEof and `?` returns the error
UnexpectedEof == ReturnErr

BodySpanWithoutTerminator(n) == n

\* the size of the buffer handed to read_exact
BodySpan(n) == n + TerminatorLen

\* reader.read_exact(&mut content)? on a buffer of content_length + 4 bytes
ReadBody ==
    /\ pc = "body"
    /\ IF Len(stream) - pos >= BodySpan(content_length)
       THEN /\ content' = SubSeq(stream, pos + 1,
                                 pos + BodySpan(content_length))
            /\ pos' = pos + BodySpan(content_length)
            /\ pc' = "write"
            /\ UNCHANGED result
       ELSE /\ pos' = Len(stream)
            /\ UnexpectedEof
            /\ UNCHANGED content
    /\ UNCHANGED <<stream, recs, cut, headers, content_length, tmp_exists,
                   tmp, output, out_file, line_rec, attempts, scanned, log>>
    /\ UNCHANGED fetchVars

\* write(&tmp_path, &content)?
WriteTmp ==
    /\ pc = "write"
    /\ \/ /\ tmp_exists' = TRUE
          /\ tmp' = content
          /\ pc' = "spawn"
          /\ UNCHANGED result
       \/ \* the file could not be created
          /\ UNCHANGED <<tmp_exists, tmp>>
          /\ ReturnErr
       \/ \* the file was created and the write failed
          /\ tmp_exists' = TRUE
          /\ tmp' = <<>>
          /\ ReturnErr
    /\ UNCHANGED <<stream, recs, cut, pos, headers, content_length, content,
                   output, out_file, line_rec, attempts, scanned, log>>
    /\ UNCHANGED fetchVars

\* Command::new("python3").arg("html2text.py").arg(&tmp_path).output()?
RunExtraction ==
    /\ pc = "spawn"
    /\ attempts' = Append(attempts, pos)
    /\ \/ /\ \E o \in Outputs : output' = o
          /\ pc' = "filter"
          /\ UNCHANGED result
       \/ \* the subprocess could not be started
          /\ UNCHANGED output
          /\ ReturnErr
    /\ UNCHANGED <<stream, recs, cut, pos, headers, content_length, content,
                   tmp_exists, tmp, out_file, line_rec, scanned, log>>
    /\ UNCHANGED fetchVars

PrependLine(file, line) == <<line>> \o file

\* writeln! on a file opened with append(true)
AppendLine(file, line) == Append(file, line)

AbortRecord ==
    /\ ReturnErr
    /\ UNCHANGED <<out_file, line_rec, log>>

\* nothing is done for a record that fails a check: the loop goes on
SkipRecord ==
    /\ pc' = "headers"
    /\ UNCHANGED <<out_file, line_rec, log, result>>

\* the status check, the JSON parse, the filter and the append
FilterAndAppend ==
    /\ pc = "filter"
    /\ IF output.success /\ output.json /\ Keep(output.doc)
       THEN \/ /\ out_file' = AppendLine(out_file, output.doc)
               /\ line_rec' = AppendLine(line_rec, Len(attempts))
               /\ log' = Append(log, Line("Wrote to output", 0, ""))
               /\ pc' = "headers"
               /\ UNCHANGED result
            \/ \* writeln!(out_file, ...)? failed
               /\ UNCHANGED <<out_file, line_rec, log>>
               /\ ReturnErr
       ELSE SkipRecord
    /\ headers' = <<>>
    /\ UNCHANGED <<stream, recs, cut, pos, content_length, content,
                   tmp_exists, tmp, output, attempts, scanned>>
    /\ UNCHANGED fetchVars

ScanNext ==
    \/ HeaderEof
    \/ HeaderLine
    \/ HeaderEmptyBreak
    \/ HeaderBlockEnd
    \/ ReadBody
    \/ WriteTmp
    \/ RunExtraction
    \/ FilterAndAppend

Next == ScanNext

Spec == Init /\ [][Next]_vars

\* ============================================================ fetch loop
\* A URL either fails Url::parse / has no host, or has a host, given here by
\* its '.'-separated labels.  A domain is a sequence of labels as well.
Url(labels) == [valid |-> TRUE, host |-> labels]
BadUrl == [valid |-> FALSE, host |-> <<>>]

multi_tlds ==
    { <<"co", "uk">>, <<"org", "uk">>, <<"gov", "uk">>,
      <<"com", "au">>, <<"co", "jp">> }

LastLabels(parts, k) == SubSeq(parts, Len(parts) - k + 1, Len(parts))

\* always the last two labels
extract_domain_last_two(url) ==
    IF ~url.valid THEN None
    ELSE IF Len(url.host) < 2 THEN Some(url.host)
    ELSE Some(LastLabels(url.host, 2))

extract_domain(url) ==
    IF ~url.valid THEN None
    ELSE LET parts == url.host
         IN  IF Len(parts) < 2 THEN Some(parts)
             ELSE IF LastLabels(parts, 2) \in multi_tlds /\ Len(parts) >= 3
             THEN Some(LastLabels(parts, 3))
             ELSE Some(LastLabels(parts, 2))

Urls ==
    { Url(<<"a", "example", "se">>),
      Url(<<"sub", "example", "co", "uk">>),
      Url(<<"news", "google", "com">>),
      Url(<<"co", "uk">>),
      Url(<<"localhost">>),
      BadUrl }

AllowList == { <<"example", "se">>, <<"blogg", "se">> }

\* ------------------------------------------------------------------ u64
\* An unsigned 64-bit integer is given by its four 16-bit limbs, least
\* significant first.
Base == 65536
U64(n) == <<n % Base, n \div Base, 0, 0>>
U64Max == <<Base - 1, Base - 1, Base - 1, Base - 1>>

\* v * 10 + d, with the carry out of the top limb
MulAdd10(v, d) ==
    LET t1 == v[1] * 10 + d
        t2 == v[2] * 10 + (t1 \div Base)
        t3 == v[3] * 10 + (t2 \div Base)
        t4 == v[4] * 10 + (t3 \div Base)
    IN  [val |-> <<t1 % Base, t2 % Base, t3 % Base, t4 % Base>>,
         overflow |-> t4 \div Base > 0]

\* a + b modulo 2^64, with the overflow flag
AddU64(a, b) ==
    LET t1 == a[1] + b[1]
        t2 == a[2] + b[2] + (t1 \div Base)
        t3 == a[3] + b[3] + (t2 \div Base)
        t4 == a[4] + b[4] + (t3 \div Base)
    IN  [val |-> <<t1 % Base, t2 % Base, t3 % Base, t4 % Base>>,
         overflow |-> t4 \div Base > 0]

\* a - b modulo 2^64, with the overflow (borrow) flag
SubU64(a, b) ==
    LET t1 == a[1] - b[1]
        b1 == IF t1 < 0 THEN 1 ELSE 0
        t2 == a[2] - b[2] - b1
        b2 == IF t2 < 0 THEN 1 ELSE 0
        t3 == a[3] - b[3] - b2
        b3 == IF t3 < 0 THEN 1 ELSE 0
        t4 == a[4] - b[4] - b3
        b4 == IF t4 < 0 THEN 1 ELSE 0
    IN  [val |-> <<t1 + b1 * Base, t2 + b2 * Base,
                   t3 + b3 * Base, t4 + b4 * Base>>,
         overflow |-> b4 = 1]

LessU64(a, b) == SubU64(a, b).overflow

RECURSIVE ParseDigitsU64(_, _)
\* the digits of s accumulated onto acc; Err on a non-digit or when the
\* value no longer fits 64 bits
ParseDigitsU64(s, acc) ==
    \* a and t are bound so that acc and s are evaluated once per digit
    CHOOSE r \in
        { IF t = <<>> THEN [ok |-> TRUE, val |-> a]
          ELSE IF Digit(Head(t)) < 0
                  \/ MulAdd10(a, Digit(Head(t))).overflow
          THEN [ok |-> FALSE, val |-> U64(0)]
          ELSE ParseDigitsU64(Tail(t), MulAdd10(a, Digit(Head(t))).val)
          : a \in {acc}, t \in {s} } : TRUE

\* str::parse::<u64>: optional '+', then at least one digit
ParseU64(s) ==
    LET d == IF s # <<>> /\ Head(s) = "+" THEN Tail(s) ELSE s
    IN  IF d = <<>> THEN [ok |-> FALSE, val |-> U64(0)]
        ELSE ParseDigitsU64(d, U64(0))

\* de_from_str: the field must be a JSON string that parses as a u64
de_from_str(field) ==
    IF field.t # "str" THEN [ok |-> FALSE, val |-> U64(0)]
    ELSE ParseU64(field.s)

\* ---------------------------------------------------------- index lines
\* A line of the index response: whether it is a JSON object at all, and
\* its fields url, filename, offset and length.
IndexLine(u, off, len) ==
    [json |-> TRUE, url |-> u, filename |-> "f.warc.gz",
     offset |-> off, length |-> len]

NotJson ==
    [json |-> FALSE, url |-> BadUrl, filename |-> "",
     offset |-> Absent, length |-> Absent]

D0 == <<"0">>
D5 == <<"5">>
D100 == <<"1", "0", "0">>
DMax == <<"1", "8", "4", "4", "6", "7", "4", "4", "0", "7", "3", "7", "0", "9", "5", "5", "1", "6", "1", "5">>
DTooBig == <<"1", "8", "4", "4", "6", "7", "4", "4", "0", "7", "3", "7", "0", "9", "5", "5", "1", "6", "1", "6">>
DNotNumber == <<"1", "2", "x">>

FetchedUrl == Url(<<"a", "example", "se">>)

GoodLines ==
    { IndexLine(u, JStr(D0), JStr(D100)) : u \in Urls }
    \cup { IndexLine(FetchedUrl, JStr(D0), JStr(D0)),
           IndexLine(FetchedUrl, JStr(D5), JStr(D0)),
           IndexLine(FetchedUrl, JStr(DMax), JStr(D100)) }

BadLines ==
    { NotJson,
      IndexLine(FetchedUrl, JStr(DNotNumber), JStr(D100)),
      IndexLine(FetchedUrl, JNum(0), JStr(D100)),
      IndexLine(FetchedUrl, JStr(D0), JStr(DTooBig)),
      IndexLine(FetchedUrl, JStr(D0), Absent) }

IndexLines == GoodLines \cup BadLines

IndexTexts == UNION { [1..n -> IndexLines] : n \in 0..MaxIndex }

\* serde_json::from_str::<CcRecord>(line)
ParseLine(line) ==
    IF /\ line.json
       /\ de_from_str(line.offset).ok
       /\ de_from_str(line.length).ok
    THEN [ok |-> TRUE,
          rec |-> [url |-> line.url, filename |-> line.filename,
                   offset |-> de_from_str(line.offset).val,
                   length |-> de_from_str(line.length).val]]
    ELSE [ok |-> FALSE,
          rec |-> [url |-> BadUrl, filename |-> "",
                   offset |-> U64(0), length |-> U64(0)]]

\* a parser that drops the lines it cannot parse
ParseLenient(lines) ==
    LET good == SelectSeq(lines, LAMBDA l : ParseLine(l).ok)
    IN  [ok |-> TRUE,
         recs |-> [i \in 1..Len(good) |-> ParseLine(good[i]).rec]]

\* the loop over text.lines(): all the records, or the first failure
ParseBatch(lines) ==
    IF \A i \in 1..Len(lines) : ParseLine(lines[i]).ok
    THEN [ok |-> TRUE,
          recs |-> [i \in 1..Len(lines) |-> ParseLine(lines[i]).rec]]
    ELSE [ok |-> FALSE, recs |-> <<>>]

\* offset + length - 1 as the machine computes it, and whether one of the
\* two operations overflowed
RangeLast(offset, length) ==
    LET sum == AddU64(offset, length)
        last == SubU64(sum.val, U64(1))
    IN  [val |-> last.val, overflow |-> sum.overflow \/ last.overflow]

\* HTTP statuses the data endpoint answers with
Statuses == {206, 404}
AnyStatusIsSuccess(st) == TRUE

is_success(st) == st >= 200 /\ st <= 299

\* A response body: the bytes it decompresses to and, for a corrupt gzip
\* stream, the number of bytes the decoder yields before it fails (-1 for a
\* sound stream).
Payloads ==
    { [plain |-> <<"x", "y">>, bad |-> -1],
      [plain |-> <<"z">>, bad |-> -1],
      [plain |-> <<"x", "y">>, bad |-> 0],
      [plain |-> <<"x", "y">>, bad |-> 1] }

NoPayload == [plain |-> <<>>, bad |-> -1]

\* GzDecoder::read_to_end into the local buffer `decompressed`
Decompress(body) ==
    [ok |-> body.bad < 0,
     decompressed |-> IF body.bad < 0 THEN body.plain
                      ELSE SubSeq(body.plain, 1, body.bad)]

IdleScan ==
    /\ recs = <<>>
    /\ cut = 0
    /\ stream = <<>>
    /\ pos = 0
    /\ pc = "idle"
    /\ headers = <<>>
    /\ content_length = 0
    /\ content = <<>>
    /\ tmp_exists = FALSE
    /\ tmp = <<>>
    /\ output = NoOutput
    /\ out_file = <<>>
    /\ line_rec = <<>>
    /\ result = "running"
    /\ attempts = <<>>
    /\ scanned = 0

FetchInit ==
    /\ overflow_checks \in BOOLEAN
    /\ text \in IndexTexts
    /\ domain = None
    /\ records = <<>>
    /\ se_map = AllowList
    /\ idx = 1
    /\ fpc = "query"
    /\ status = 0
    /\ resp = NoPayload
    /\ archive = <<>>
    /\ net = <<>>
    /\ log = <<>>
    /\ IdleScan

\* a ranged request for record i, and a delay
Request(i, first, last) ==
    [type |-> "request", rec |-> i, ms |-> 0, first |-> first, last |-> last]
Delay(ms) ==
    [type |-> "sleep", rec |-> 0, ms |-> ms, first |-> U64(0),
     last |-> U64(0)]

\* the loop of main moves on to the next record
NextRecord ==
    /\ idx' = idx + 1
    /\ fpc' = "loop"

\* fetch_and_write returned Err(e): main prints the warning and goes on
FetchFailed(e) ==
    /\ log' = Append(log, Line("[WARN]", idx, e))
    /\ NextRecord

\* client.get(build_index_url(cc_crawl)).send().await? and resp.text().await?
QueryIndex ==
    /\ fpc = "query"
    /\ \/ \* the response arrives
          fpc' = "parse"
       \/ \* the request or the reading of the body fails: main returns Err
          fpc' = "failed"
       \/ \* the server never answers; the client has no timeout
          fpc' = "hung"
    /\ UNCHANGED <<overflow_checks, text, domain, records, se_map, idx,
                   status, resp, archive, net, log>>
    /\ UNCHANGED scanVars

\* for line in text.lines(): parse, or print ERROR and return
ParseIndex ==
    /\ fpc = "parse"
    /\ IF ParseBatch(text).ok
       THEN /\ records' = ParseBatch(text).recs
            /\ log' = Append(log, Line("[INFO] Found", Len(text), ""))
            /\ fpc' = "loop"
       ELSE /\ records' = records
            /\ log' = Append(log, Line("ERROR", 0, ""))
            /\ fpc' = "failed"
    /\ UNCHANGED <<overflow_checks, text, domain, se_map, idx, status, resp,
                   archive, net>>
    /\ UNCHANGED scanVars

AnyDomain(d) == TRUE

\* se_map.get(&domain) is Some
InAllowList(d) == d \in se_map

\* for rec in records: extract_domain and the lookup in se_map
LoopStep ==
    /\ fpc = "loop"
    /\ idx <= Len(records)
    /\ domain' = extract_domain(records[idx].url)
    /\ IF ~domain'.some
       THEN NextRecord /\ UNCHANGED log
       ELSE IF InAllowList(domain'.val)
       THEN fpc' = "send" /\ UNCHANGED <<idx, log>>
       ELSE /\ log' = Append(log, Line("skipped", idx, ""))
            /\ NextRecord
    /\ UNCHANGED <<overflow_checks, text, records, se_map, status, resp,
                   archive, net>>
    /\ UNCHANGED scanVars

\* the loop is over
LoopEnd ==
    /\ fpc = "loop"
    /\ idx > Len(records)
    /\ fpc' = "done"
    /\ log' = Append(log, Line("[DONE]", 0, ""))
    /\ UNCHANGED <<overflow_checks, text, domain, records, se_map, idx,
                   status, resp, archive, net>>
    /\ UNCHANGED scanVars

\* client.get(..).header("Range", ..).send().await? and the status check
\* the Range header is computed (line 216); an overflow panics in a build
\* with overflow checks and wraps around otherwise
Send ==
    /\ fpc = "send"
    /\ LET rec == records[idx]
           last == RangeLast(rec.offset, rec.length)
       IN  IF last.overflow /\ overflow_checks
           THEN /\ fpc' = "panicked"
                /\ log' = Append(log, Line("panicked", idx, "overflow"))
                /\ UNCHANGED <<idx, status, net>>
           ELSE /\ net' = Append(net, Request(idx, rec.offset, last.val))
                /\ \/ \* the request could not be sent
                      FetchFailed("send") /\ status' = 0
                   \/ \* the server never answers; the client has no timeout
                      fpc' = "hung" /\ UNCHANGED <<idx, status, log>>
                   \/ \E st \in Statuses :
                        /\ status' = st
                        /\ IF is_success(st)
                           THEN fpc' = "bytes" /\ UNCHANGED <<idx, log>>
                           ELSE /\ log' = log \o
                                     << Line("[WARN] Skipping", idx, ""),
                                        Line("sleeping a bit", idx, "") >>
                                /\ fpc' = "sleep"
                                /\ UNCHANGED idx
    /\ UNCHANGED <<overflow_checks, text, domain, records, se_map, resp,
                   archive>>
    /\ UNCHANGED scanVars

\* sleep(Duration::from_millis(1000)).await; return Ok(())
Backoff ==
    /\ fpc = "sleep"
    /\ net' = Append(net, Delay(BackoffMillis))
    /\ NextRecord
    /\ UNCHANGED <<overflow_checks, text, domain, records, se_map, status,
                   resp, archive, log>>
    /\ UNCHANGED scanVars

\* resp.bytes().await?
ReadBytes ==
    /\ fpc = "bytes"
    /\ \/ \* the body could not be read
          FetchFailed("body") /\ UNCHANGED resp
       \/ \E body \in Payloads :
            /\ resp' = body
            /\ fpc' = "gunzip"
            /\ UNCHANGED <<idx, log>>
    /\ UNCHANGED <<overflow_checks, text, domain, records, se_map, status,
                   archive, net>>
    /\ UNCHANGED scanVars

\* what reaches the file when decompression has failed
PartialWrite(out) == archive \o out.decompressed

\* gz.read_to_end(&mut decompressed)? leaves the writer untouched on Err
FailedDecompression(out) == archive

\* read_to_end, write_all, flush and the final println
DecompressAndWrite ==
    /\ fpc = "gunzip"
    /\ LET out == Decompress(resp)
       IN  IF out.ok
           THEN /\ archive' = archive \o out.decompressed
                /\ log' = Append(log, Line("[OK] Wrote", idx, ""))
                /\ NextRecord
           ELSE /\ archive' = FailedDecompression(out)
                /\ FetchFailed("gzip")
    /\ UNCHANGED <<overflow_checks, text, domain, records, se_map, status,
                   resp, net>>
    /\ UNCHANGED scanVars

FetchNext ==
    \/ QueryIndex
    \/ ParseIndex
    \/ LoopStep
    \/ LoopEnd
    \/ Send
    \/ Backoff
    \/ ReadBytes
    \/ DecompressAndWrite

FetchSpec == FetchInit /\ [][FetchNext]_vars

\* the executor keeps running main as long as it can take a step
FetchFair == FetchSpec /\ WF_vars(FetchNext)

\* ================================================================= claims
ScanDone == pc = "done"

\* every record declares a positive Content-Length and nothing is cut off
WellFormed == cut = 0 /\ \A i \in 1..Len(recs) : recs[i].kind = "body"

\* C1: on a stream of N well-formed records the reader never passes the end
\* of the stream, the k-th extraction attempt is made right after the k-th
\* record has been read, and a scan that returns Ok has made exactly N
\* attempts and stands exactly at end-of-stream.
C1_WellFormedStreamFullyScanned ==
    WellFormed =>
        /\ pos <= Len(stream)
        /\ Len(attempts) <= Len(recs)
        /\ \A k \in 1..Len(attempts) : attempts[k] = Boundary(recs, k)
        /\ (ScanDone /\ result = "ok") =>
              (Len(attempts) = Len(recs) /\ pos = Len(stream))

C1_Witness ==
    /\ WellFormed
    /\ Len(recs) >= 2
    /\ ScanDone
    /\ result = "ok"
    /\ Len(attempts) = Len(recs)
    /\ pos = Len(stream)

\* C2: a scan of a complete stream that returns Ok has gone through every
\* record, body-less records included, and has consumed header bytes +
\* Content-Length + 4 for each of them, so that it stands at end-of-stream.
C2_BodylessRecordSkippedToNextBoundary ==
    (ScanDone /\ result = "ok" /\ cut = 0) =>
        (scanned = Len(recs) /\ pos = Len(stream))

\* C3: in no terminal state of the scan does the temporary file exist.
C3_TempFileRemovedOnEveryExit == ScanDone => ~tmp_exists

\* C4: when the extraction subprocess is about to run, L + 4 bytes have been
\* read for the record and the temporary file holds exactly the L body
\* bytes, without the terminator.
C4_TempFileHoldsBodyOnly ==
    pc = "spawn" =>
        /\ Len(content) = content_length + TerminatorLen
        /\ tmp = SubSeq(stream, pos - (content_length + TerminatorLen) + 1,
                        pos - TerminatorLen)

ExtractionFailed == ~(output.success /\ output.json)

\* C5: when extraction has failed (non-zero exit or unparsable stdout) the
\* record is skipped: nothing is appended, the scan keeps running and goes
\* on reading headers at the boundary that follows the failed record.
C5_ExtractionFailureSkipsRecord ==
    [][(pc = "filter" /\ ExtractionFailed) =>
          /\ out_file' = out_file
          /\ result' = "running"
          /\ pc' = "headers"
          /\ headers' = <<>>
          /\ pos' = Boundary(recs, Len(attempts))]_vars

C5_Witness ==
    /\ Len(attempts) = 1
    /\ ExtractionFailed
    /\ pc = "headers"
    /\ headers # <<>>
    /\ pos > Boundary(recs, 1)
    /\ out_file = <<>>

\* the probability a document carries, whichever way it is encoded
DocProb(doc) ==
    IF doc.lang_prob.t = "num" THEN doc.lang_prob.n
    ELSE IF doc.lang_prob.t = "str" THEN ParseF64(doc.lang_prob.s)
    ELSE -1

\* C6: every line of the filtered-document file comes from a document with
\* lang "sv", lang_prob above 0.8 and a text of more than 100 characters.
C6_PersistedDocumentsPassFilter ==
    \A k \in 1..Len(out_file) :
        /\ out_file[k].lang = JStr(Sv)
        /\ DocProb(out_file[k]) > ProbThreshold
        /\ out_file[k].text.present
        /\ CharLen(out_file[k].text) > MinTextLen

RECURSIVE StripZeros(_)
StripZeros(s) ==
    IF Len(s) > 1 /\ s[Len(s)] = "0"
    THEN StripZeros(SubSeq(s, 1, Len(s) - 1)) ELSE s

\* the decimal notation of a probability given in units of 10^-7
FormatF64(n) ==
    Decimal(n \div ProbScale) \o <<".">>
    \o StripZeros([k \in 1..7 |->
                      DigitChar((n \div Pow10(7 - k)) % 10)])

WithStringProb(doc) ==
    [doc EXCEPT !.lang_prob = JStr(FormatF64(doc.lang_prob.n))]

\* C7: a document whose lang_prob is a JSON number is appended exactly when
\* the same document with the string-encoded lang_prob passes the filter.
C7_ProbEncodingIrrelevant ==
    [][(/\ pc = "filter"
        /\ output.success
        /\ output.json
        /\ output.doc.lang_prob.t = "num"
        /\ result' = "running") =>
          ((out_file' = Append(out_file, output.doc))
              <=> Keep(WithStringProb(output.doc)))]_vars

\* C8: a non-2xx answer leads to the backoff and never to the body being
\* read; the backoff step appends nothing to the archive file, lets the
\* fixed delay elapse, prints no error (fetch_and_write returned Ok) and
\* moves the loop to the next record; no record is requested twice.
C8_NoRerequest ==
    \A j, k \in 1..Len(net) :
        (j # k /\ net[j].type = "request" /\ net[k].type = "request")
            => net[j].rec # net[k].rec

C8_Non2xxSkipsWithBackoff ==
    /\ [](fpc \in {"bytes", "gunzip"} => (status >= 200 /\ status <= 299))
    /\ [](fpc = "sleep" => ~(status >= 200 /\ status <= 299))
    /\ []C8_NoRerequest
    /\ [][fpc = "sleep" =>
            /\ archive' = archive
            /\ net' = Append(net, Delay(BackoffMillis))
            /\ log' = log
            /\ idx' = idx + 1
            /\ fpc' = "loop"]_vars
    /\ [][(fpc = "send" /\ fpc' = "sleep") => archive' = archive]_vars

C8_Witness ==
    /\ Len(net) >= 3
    /\ net[1].type = "request" /\ net[1].rec = 1
    /\ net[2] = Delay(BackoffMillis)
    /\ net[3].type = "request" /\ net[3].rec = 2
    /\ archive = <<>>

\* the fetch of record i failed on a non-2xx answer or on the transport
TransportOrStatusFailure(i) ==
    \E k \in 1..Len(log) :
        /\ log[k].rec = i
        /\ \/ log[k].msg = "[WARN] Skipping"
           \/ log[k].msg = "[WARN]" /\ log[k].err \in {"send", "body"}

\* C9: after a fetch that failed on a non-2xx answer or on the transport,
\* the backoff delay elapses before the next request is issued.
C9_BackoffAfterEveryFailedFetch ==
    \A k \in 1..(Len(net) - 1) :
        (/\ net[k].type = "request"
         /\ TransportOrStatusFailure(net[k].rec))
            => net[k + 1] = Delay(BackoffMillis)

C11_UnparsableLineFailsBatch ==
    (\E i \in 1..Len(text) : text[i] \in BadLines) =>
        /\ records = <<>>
        /\ net = <<>>
        /\ archive = <<>>
        /\ fpc \in {"query", "parse", "failed", "hung"}

C11_Witness ==
    /\ Len(text) = 2
    /\ text[1] = IndexLine(FetchedUrl, JStr(D0), JStr(D100))
    /\ text[2] = IndexLine(FetchedUrl, JStr(DNotNumber), JStr(D100))
    /\ fpc = "failed"
    /\ log = <<Line("ERROR", 0, "")>>
    /\ net = <<>>

\* the record's URL yields a domain that is a key of the allow-list
DomainAllowed(rec) ==
    /\ extract_domain(rec.url).some
    /\ extract_domain(rec.url).val \in se_map

\* C12: every segment request is for a record whose extracted domain is a
\* key of the allow-list; the loop step over any other record issues no
\* request, appends nothing and moves on; and the archive file only grows
\* while a requested record is being processed.
C12_FetchOnlyAllowListed ==
    /\ [](\A k \in 1..Len(net) :
            net[k].type = "request" => DomainAllowed(records[net[k].rec]))
    /\ [][(fpc = "loop" /\ idx <= Len(records)
           /\ ~DomainAllowed(records[idx])) =>
            /\ net' = net
            /\ archive' = archive
            /\ fpc' = "loop"
            /\ idx' = idx + 1]_vars
    /\ [][archive' # archive =>
            (idx <= Len(records) /\ DomainAllowed(records[idx]))]_vars

C12_Witness ==
    /\ fpc = "done"
    /\ Len(records) = 2
    /\ records[1].url = Url(<<"sub", "example", "co", "uk">>)
    /\ records[2].url = FetchedUrl
    /\ Len(net) = 1
    /\ net[1].rec = 2
    /\ archive # <<>>

\* C13: every skip prints something: a record whose extraction failed, an
\* index record that the loop passes over without fetching it, and a fetch
\* that failed.
C13_EverySkipIsLogged ==
    /\ [][(pc = "filter" /\ ExtractionFailed) => log' # log]_vars
    /\ [][(fpc = "loop" /\ idx <= Len(records) /\ idx' = idx + 1) =>
            log' # log]_vars
    /\ [][(fpc \in {"send", "bytes", "gunzip"} /\ idx' = idx + 1
           /\ archive' = archive) => log' # log]_vars

FetchTerminated == fpc \in {"done", "failed", "panicked"}

\* C14: whatever the remote server does, the run eventually terminates.
C14_RunTerminates == <>FetchTerminated

KnownSuffixes ==
    { <<"co", "uk">>, <<"org", "uk">>, <<"gov", "uk">>,
      <<"com", "au">>, <<"co", "jp">> }

\* the domain the host labels h stand for
ExpectedDomain(h) ==
    LET n == Len(h)
    IN  IF n >= 3 /\ <<h[n - 1], h[n]>> \in KnownSuffixes
        THEN <<h[n - 2], h[n - 1], h[n]>>
        ELSE IF n >= 2 THEN <<h[n - 1], h[n]>>
        ELSE h

\* C18: the loop step over a record whose URL has a host leaves in `domain`
\* the last three labels of the host when it has at least three and ends in
\* a known two-label suffix, the last two labels when it has at least two,
\* and the host itself otherwise.
C18_ExtractDomain ==
    [][(fpc = "loop" /\ idx <= Len(records) /\ records[idx].url.valid) =>
          domain' = Some(ExpectedDomain(records[idx].url.host))]_vars

C18_Witness ==
    /\ Len(records) = 2
    /\ idx = 3
    /\ records[1].url = Url(<<"news", "google", "com">>)
    /\ records[2].url = Url(<<"sub", "example", "co", "uk">>)
    /\ domain = Some(<<"example", "co", "uk">>)
    /\ log = << Line("[INFO] Found", 2, ""), Line("skipped", 1, ""),
                Line("skipped", 2, "") >>

\* C19: the run never panics on the range arithmetic, and every request is
\* for a range computed without overflow whose last position is not below
\* its first.
C19_RangeNeverOverflows ==
    /\ fpc # "panicked"
    /\ \A k \in 1..Len(net) :
          net[k].type = "request" =>
            /\ ~RangeLast(records[net[k].rec].offset,
                          records[net[k].rec].length).overflow
            /\ ~LessU64(net[k].last, net[k].first)

\* C15: for a document with lang "sv" and a text of more than 100
\* characters, the line is appended exactly when the document's lang_prob is
\* strictly above 0.8 (0.8 itself is rejected, 0.8000001 is accepted).
C15_StrictThreshold ==
    [][(/\ pc = "filter"
        /\ output.success
        /\ output.json
        /\ output.doc.lang = JStr(Sv)
        /\ output.doc.text.present
        /\ CharLen(output.doc.text) > MinTextLen
        /\ result' = "running") =>
          ((out_file' = Append(out_file, output.doc))
              <=> DocProb(output.doc) > ProbThreshold)]_vars

\* C16: the scanner is in the body, temp-file, subprocess or filter step
\* only for a record that declares a positive Content-Length; the step that
\* ends the header block of any other record goes straight back to reading
\* headers and leaves the temp file, the attempts and the output alone.
C16_NoAttemptForBodylessRecord ==
    /\ [](pc \in {"body", "write", "spawn", "filter"} =>
            (scanned >= 1 /\ scanned <= Len(recs)
             /\ recs[scanned].kind = "body"))
    /\ [](\A k \in 1..Len(attempts) : recs[k].kind = "body")
    /\ [][(/\ pc = "headers"
           /\ scanned' = scanned + 1
           /\ scanned' <= Len(recs)
           /\ recs[scanned'].kind # "body") =>
            /\ pc' = "headers"
            /\ UNCHANGED <<tmp, tmp_exists, attempts, out_file>>]_vars

C16_Witness ==
    /\ Len(recs) = 2
    /\ recs[1].kind = "body"
    /\ recs[2].kind = "zero"
    /\ scanned = 2
    /\ ScanDone
    /\ result = "ok"
    /\ Len(attempts) = 1

\* C17: the lines of the output come from records in increasing stream
\* order, at most one per record; the file only ever grows by one line at
\* its end; and an accepted document adds exactly its line.
C17_AppendInStreamOrder ==
    /\ [](/\ Len(line_rec) = Len(out_file)
          /\ \A j, k \in 1..Len(line_rec) :
                j < k => line_rec[j] < line_rec[k])
    /\ [][\/ out_file' = out_file
          \/ /\ Len(out_file') = Len(out_file) + 1
             /\ SubSeq(out_file', 1, Len(out_file)) = out_file]_vars
    /\ [][(/\ pc = "filter"
           /\ output.success
           /\ output.json
           /\ Keep(output.doc)
           /\ result' = "running") =>
            /\ out_file' = Append(out_file, output.doc)
            /\ line_rec' = Append(line_rec, Len(attempts))]_vars

C17_Witness ==
    /\ Len(out_file) = 2
    /\ line_rec = <<1, 2>>
    /\ out_file[1] # out_file[2]
    /\ ScanDone

\* the last record is cut short somewhere in its body or terminator
TruncatedLast ==
    /\ Len(recs) >= 1
    /\ \A i \in 1..Len(recs) : recs[i].kind = "body"
    /\ cut >= 1
    /\ cut <= Len(recs[Len(recs)].body) + TerminatorLen

\* C20: when the last record is truncated, no extraction attempt and no
\* output line is ever made for it and the scan never returns Ok; the step
\* that meets the short read returns the error and leaves the attempts, the
\* output lines and the temp file as they are.
C20_TruncatedRecordIsAnError ==
    /\ [](TruncatedLast =>
            /\ Len(attempts) <= Len(recs) - 1
            /\ \A k \in 1..Len(line_rec) : line_rec[k] < Len(recs)
            /\ ScanDone => result = "err")
    /\ [][(pc = "body"
           /\ Len(stream) - pos < content_length + TerminatorLen) =>
            /\ pc' = "done"
            /\ result' = "err"
            /\ UNCHANGED <<attempts, out_file, tmp, tmp_exists>>]_vars

C20_Witness ==
    /\ TruncatedLast
    /\ Len(recs) = 2
    /\ ScanDone
    /\ result = "err"
    /\ pos = Len(stream)
    /\ Len(attempts) = 1
    /\ Len(out_file) = 1
====
